---- MODULE Spec2Model ----
(***************************************************************************)
(* Model of scripts/migration.py: migrate_data(), the CSV -> MongoDB       *)
(* pipeline.  One action per statement group that talks to the file or to  *)
(* the store.  The store ("patients" collection) is a sequence of          *)
(* documents in natural (insertion) order plus a set of index names; a     *)
(* document is a function from field names to values, so that a missing    *)
(* field is a field outside its DOMAIN.                                     *)
(***************************************************************************)
EXTENDS Integers, Sequences, FiniteSets, TLC

\* ------------------------------------------------------------------ bounds
MaxRows == 2     \* rows of the source file
MaxClock == 1    \* ticks the clock can advance over the modelled runs
MaxRuns == 2     \* successive executions of the script

\* ------------------------------------------------------------------ values
NoCount == -1    \* a count that has not been computed (Python: unbound)

\* Names are sequences of characters so that the regex can look at them.
NameBobby == <<"B", "o", "b", "b", "y", " ", "J">>
NameBobbyMixed == <<"b", "O", "B", "B", "Y", " ", "k">>
NameBob == <<"B", "o", "b">>
SentinelName ==
    <<"T", "e", "s", "t", " ", "P", "a", "t", "i", "e", "n", "t", " ",
      "T", "O", " ", "D", "E", "L", "E", "T", "E">>

\* A hospital name is a sequence of string chunks; f"{name} (Nom mis à jour)"
\* appends a chunk.
UpdatedSuffix == <<" (Nom mis a jour)">>

\* Raw dates are character sequences as read from the CSV.
RawDate1 == <<"2", "0", "2", "4", "-", "0", "1", "-", "1", "5">>
RawDate2 == <<"2", "0", "2", "4", "-", "0", "2", "-", "0", "2">>
RawBadMonth == <<"2", "0", "2", "4", "-", "1", "3", "-", "0", "1">>
RawGarbage == <<"n", "/", "a">>

Columns ==
    {"Name", "Age", "Medical Condition", "Hospital", "Admission Type",
     "Date of Admission", "Discharge Date"}

MkRow(n, mc, h, doa, dd) ==
    ("Name" :> n) @@ ("Age" :> 30) @@ ("Medical Condition" :> mc)
    @@ ("Hospital" :> h) @@ ("Admission Type" :> "Urgent")
    @@ ("Date of Admission" :> doa) @@ ("Discharge Date" :> dd)

\* Every name with every condition, both hospitals under each condition.
GoodRows ==
    {MkRow(NameBobbyMixed, "Diabetes", <<"Smith PLC">>, RawDate1, RawDate2),
     MkRow(NameBobbyMixed, "Cancer", <<"Kim Inc">>, RawDate1, RawDate2),
     MkRow(NameBob, "Diabetes", <<"Kim Inc">>, RawDate1, RawDate2),
     MkRow(NameBob, "Cancer", <<"Smith PLC">>, RawDate1, RawDate2),
     MkRow(SentinelName, "Diabetes", <<"Smith PLC">>, RawDate1, RawDate2),
     MkRow(SentinelName, "Cancer", <<"Kim Inc">>, RawDate1, RawDate2)}
BadRows ==
    {MkRow(NameBob, "Cancer", <<"Kim Inc">>, RawBadMonth, RawDate2),
     MkRow(NameBob, "Cancer", <<"Kim Inc">>, RawDate1, RawGarbage)}
Rows == GoodRows \cup BadRows

SeqsUpTo(S, n) == UNION {[1..k -> S] : k \in 0..n}
SourceFiles == SeqsUpTo(Rows, MaxRows)

\* ------------------------------------------------------------------ regex
\* Lower case of the letters that occur in the modelled names.
Lower(c) ==
    CASE c = "B" -> "b" [] c = "D" -> "d" [] c = "E" -> "e" [] c = "J" -> "j"
      [] c = "L" -> "l" [] c = "O" -> "o" [] c = "P" -> "p" [] c = "T" -> "t"
      [] c = "Y" -> "y" [] OTHER -> c

\* A filter document is a record; Matches evaluates it on a document.
\* {"Name": {"$regex": "^Bobby", "$options": "i"}}
FilterBobby ==
    [op |-> "prefix", field |-> "Name", pattern |-> <<"B", "o", "b", "b", "y">>,
     options |-> "i"]

Eq(field, value) == [op |-> "eq", field |-> field, value |-> value]

\* {"Medical Condition": "Diabetes"}
FilterDiabetes == Eq("Medical Condition", "Diabetes")

\* {"Name": "Test Patient TO DELETE"}
FilterSentinel == Eq("Name", SentinelName)

StatusValue == "Necessite suivi regulier"
\* {"status": "Nécessite suivi régulier"}
FilterStatus == Eq("status", StatusValue)

\* {"$or": [{"Name": {"$exists": False}}, {"Age": {"$exists": False}}]}
FilterIncomplete ==
    [op |-> "or",
     any |-> {[op |-> "missing", field |-> "Name"], [op |-> "missing", field |-> "Age"]}]

\* {}
FilterAll == [op |-> "all"]

Fold(c, options) == IF options = "i" THEN Lower(c) ELSE c

RECURSIVE Matches(_, _)
Matches(d, f) ==
    CASE f.op = "all" -> TRUE
      [] f.op = "eq" -> f.field \in DOMAIN d /\ d[f.field] = f.value
      [] f.op = "missing" -> f.field \notin DOMAIN d
      [] f.op = "or" -> \E g \in f.any : Matches(d, g)
      [] f.op = "prefix" ->
            /\ f.field \in DOMAIN d
            /\ Len(d[f.field]) >= Len(f.pattern)
            /\ \A i \in 1..Len(f.pattern) :
                 Fold(d[f.field][i], f.options) = Fold(f.pattern[i], f.options)

\* ------------------------------------------------------------------ dates
Digit(c) ==
    CASE c = "0" -> 0 [] c = "1" -> 1 [] c = "2" -> 2 [] c = "3" -> 3
      [] c = "4" -> 4 [] c = "5" -> 5 [] c = "6" -> 6 [] c = "7" -> 7
      [] c = "8" -> 8 [] c = "9" -> 9 [] OTHER -> -1

DateShape(s) ==
    /\ Len(s) = 10
    /\ s[5] = "-" /\ s[8] = "-"
    /\ \A i \in {1, 2, 3, 4, 6, 7, 9, 10} : Digit(s[i]) >= 0

YearOf(s) == 1000 * Digit(s[1]) + 100 * Digit(s[2]) + 10 * Digit(s[3]) + Digit(s[4])
MonthOf(s) == 10 * Digit(s[6]) + Digit(s[7])
DayOf(s) == 10 * Digit(s[9]) + Digit(s[10])

\* pd.to_datetime raises on a value it cannot parse.
Parseable(s) ==
    /\ DateShape(s)
    /\ MonthOf(s) \in 1..12
    /\ DayOf(s) \in 1..31

ToDatetime(s) == <<YearOf(s), MonthOf(s), DayOf(s)>>

ColumnParseable(table, col) == \A i \in 1..Len(table) : Parseable(table[i][col])

\* ------------------------------------------------------------------ clock
\* Nondecreasing sequences of n readings of datetime.utcnow(), none before
\* `from`; the unit is the resolution the store keeps.
RECURSIVE Readings(_, _)
Readings(n, from) ==
    IF n = 0 THEN {<<>>}
    ELSE UNION {{<<t>> \o s : s \in Readings(n - 1, t)} : t \in from..MaxClock}

Last(s, default) == IF Len(s) = 0 THEN default ELSE s[Len(s)]

\* ------------------------------------------------------------------ store
Indices(c, f) == {i \in 1..Len(c) : Matches(c[i], f)}

\* The first matching document in natural order, 0 when none matches.
FirstMatch(c, f) ==
    IF Indices(c, f) = {} THEN 0
    ELSE CHOOSE i \in Indices(c, f) : \A j \in Indices(c, f) : i <= j

CountDocuments(c, f) == Cardinality(Indices(c, f))

\* $set: the update's fields replace or extend the document's.
SetFields(d, upd) == upd @@ d

UpdateOne(c, f, upd) ==
    IF FirstMatch(c, f) = 0 THEN c
    ELSE [c EXCEPT ![FirstMatch(c, f)] = SetFields(@, upd)]

UpdateMany(c, f, upd) ==
    [i \in 1..Len(c) |-> IF Matches(c[i], f) THEN SetFields(c[i], upd) ELSE c[i]]

\* modified_count: the documents the update changed.
ModifiedCount(before, after) ==
    Cardinality({i \in 1..Len(before) : before[i] # after[i]})

RemoveAt(c, k) == [i \in 1..(Len(c) - 1) |-> IF i < k THEN c[i] ELSE c[i + 1]]

DeleteOne(c, f) == IF FirstMatch(c, f) = 0 THEN c ELSE RemoveAt(c, FirstMatch(c, f))

RECURSIVE Keep(_, _)
Keep(c, drop) ==
    IF c = <<>> THEN <<>>
    ELSE (IF 1 \in drop THEN <<>> ELSE <<Head(c)>>)
         \o Keep(Tail(c), {i - 1 : i \in drop \ {1}})

DeleteMany(c, f) == Keep(c, Indices(c, f))

IdIndex == "_id_"
DeclaredIndexes == {"Name_1", "Medical Condition_1", "Hospital_1", "Date of Admission_1"}

\* Fault of create_index: an index that already exists is dropped.
CreateIndex_Toggle(ix, name) ==
    IF name \in ix THEN ix \ {name} ELSE ix \cup {"_id_", name}

\* create_index: an index that already exists with the same key is kept as is;
\* a collection that does not exist yet is created with its _id index.
CreateIndex(ix, name) == ix \cup {IdIndex, name}

\* ------------------------------------------------------------------ state
VARIABLES
    pc,              \* position in migrate_data
    run,             \* which execution of the script this is
    csv,             \* ../data/healthcare_dataset.csv
    clock,           \* datetime.utcnow()
    coll,            \* db["patients"], natural order
    indexes,         \* index names of the collection ({} = no collection yet)
    client_open,     \* client (MongoClient) holds its connection
    df,              \* the loaded table
    documents,       \* the records handed to insert_many
    inserted,        \* len(result.inserted_ids)
    count,           \* count after the bulk insert
    patient,         \* find_one by name pattern: <<>> (None) or <<doc>>
    first_hospital,  \* find_one({}, {"Hospital": 1}): <<>> or <<doc>>
    update_result,   \* modified_count of the three updates
    delete_result,   \* deleted_count of the three demo deletes
    final_count,     \* count after the CRUD demonstration
    writes,          \* write operations issued to the store in this run
    failed_at,       \* the step that raised, "" if none
    prev_final       \* final_count of the preceding run if it completed

vars ==
    <<pc, run, csv, clock, coll, indexes, client_open, df, documents, inserted,
      count, patient, first_hospital, update_result, delete_result,
      final_count, writes, failed_at, prev_final>>

locals ==
    <<df, documents, inserted, count, patient, first_hospital, update_result,
      delete_result, final_count>>

\* What the collection may hold before the first run.
OldDoc ==
    ("_id" :> <<0, 1>>) @@ ("Name" :> NameBobby) @@ ("Age" :> 41)
    @@ ("Medical Condition" :> "Diabetes") @@ ("Hospital" :> <<"Old Clinic">>)
OldPartial == ("_id" :> <<0, 2>>) @@ ("Name" :> NameBob) @@ ("status" :> StatusValue)

PriorStores ==
    {[coll |-> <<>>, indexes |-> {}],
     [coll |-> <<OldDoc>>, indexes |-> {IdIndex}],
     [coll |-> <<OldDoc, OldPartial>>, indexes |-> {IdIndex, "Name_1"}],
     [coll |-> <<>>, indexes |-> {IdIndex} \cup DeclaredIndexes]}

NoResults == [k \in 1..3 |-> NoCount]

Init ==
    /\ pc = "connect"
    /\ run = 1
    /\ csv \in SourceFiles
    /\ clock = 0
    /\ \E s \in PriorStores : coll = s.coll /\ indexes = s.indexes
    /\ client_open = FALSE
    /\ df = <<>>
    /\ documents = <<>>
    /\ inserted = NoCount
    /\ count = NoCount
    /\ patient = <<>>
    /\ first_hospital = <<>>
    /\ update_result = NoResults
    /\ delete_result = NoResults
    /\ final_count = NoCount
    /\ writes = 0
    /\ failed_at = ""
    /\ prev_final = NoCount

\* An uncaught exception: the function is left where it stands.
Raise ==
    /\ pc' = "aborted"
    /\ failed_at' = pc

Goto(next) ==
    /\ pc' = next
    /\ failed_at' = failed_at

\* ------------------------------------------------------------------ steps
\* client = MongoClient(...); db = ...; collection = ...
Connect ==
    /\ pc = "connect"
    /\ client_open' = TRUE
    /\ Goto("load")
    /\ UNCHANGED <<run, csv, clock, coll, indexes, locals, writes, prev_final>>

\* df = pd.read_csv(...)
Load ==
    /\ pc = "load"
    /\ df' = csv
    /\ Goto("validate")
    /\ UNCHANGED <<run, csv, clock, coll, indexes, client_open, documents,
                   inserted, count, patient, first_hospital, update_result,
                   delete_result, final_count, writes, prev_final>>

\* pd.read_csv raises FileNotFoundError / an I/O error.
LoadFail ==
    /\ pc = "load"
    /\ Raise
    /\ UNCHANGED <<run, csv, clock, coll, indexes, client_open, locals, writes,
                   prev_final>>

\* columns, missing values, duplicates: logged only
Validate ==
    /\ pc = "validate"
    /\ Goto("transform")
    /\ UNCHANGED <<run, csv, clock, coll, indexes, client_open, locals, writes,
                   prev_final>>

Stamp(row, created, updated) ==
    ("created_at" :> created) @@ ("updated_at" :> updated)
    @@ [row EXCEPT !["Date of Admission"] = ToDatetime(@),
                   !["Discharge Date"] = ToDatetime(@)]

\* to_datetime on both columns, to_dict('records'), the timestamp loop
Transform ==
    /\ pc = "transform"
    /\ ColumnParseable(df, "Date of Admission")
    /\ ColumnParseable(df, "Discharge Date")
    /\ \E ts \in Readings(2 * Len(df), clock) :
         /\ documents' = [i \in 1..Len(df) |-> Stamp(df[i], ts[2 * i - 1], ts[2 * i])]
         /\ clock' = Last(ts, clock)
    /\ Goto("delete_all")
    /\ UNCHANGED <<run, csv, coll, indexes, client_open, df, inserted, count,
                   patient, first_hospital, update_result, delete_result,
                   final_count, writes, prev_final>>

\* Fault of the ordering: the delete-all has run before the dates are parsed.
TransformFail_AfterDelete ==
    /\ pc = "transform"
    /\ ~(ColumnParseable(df, "Date of Admission") /\ ColumnParseable(df, "Discharge Date"))
    /\ coll' = <<>>
    /\ writes' = writes + 1
    /\ Raise
    /\ UNCHANGED <<run, csv, clock, indexes, client_open, locals, prev_final>>

TransformFail ==
    /\ pc = "transform"
    /\ ~(ColumnParseable(df, "Date of Admission") /\ ColumnParseable(df, "Discharge Date"))
    /\ Raise
    /\ UNCHANGED <<run, csv, clock, coll, indexes, client_open, locals, writes,
                   prev_final>>

\* Faults of the delete-all: it deletes nothing / only the flagged documents.
DeleteAll_Nothing(c) == c
DeleteAll_OnlyStatus(c) == DeleteMany(c, FilterStatus)

\* collection.delete_many({})
DeleteAll(c) == <<>>

DeleteOld ==
    /\ pc = "delete_all"
    /\ coll' = DeleteAll(coll)
    /\ writes' = writes + 1
    /\ Goto("insert_many")
    /\ UNCHANGED <<run, csv, clock, indexes, client_open, locals, prev_final>>

\* insert_many gives every document its _id before it sends the batch.
WithIds(docs) == [i \in 1..Len(docs) |-> ("_id" :> <<run, i>>) @@ docs[i]]

InsertManyResult(c, docs) == c \o docs

\* result = collection.insert_many(documents); the count is logged
InsertMany ==
    /\ pc = "insert_many"
    /\ Len(documents) > 0
    /\ documents' = WithIds(documents)
    /\ coll' = InsertManyResult(coll, documents')
    /\ indexes' = indexes \cup {IdIndex}
    /\ inserted' = Len(documents')
    /\ writes' = writes + 1
    /\ Goto("index_name")
    /\ UNCHANGED <<run, csv, clock, client_open, df, count, patient,
                   first_hospital, update_result, delete_result, final_count,
                   prev_final>>

\* Fault of the bulk insert: its exception is caught and the run goes on.
InsertManyFail_Swallowed ==
    /\ pc = "insert_many"
    /\ IF Len(documents) = 0
       THEN UNCHANGED <<documents, coll, indexes, writes>>
       ELSE /\ documents' = WithIds(documents)
            /\ \E k \in 0..(Len(documents) - 1) :
                 /\ coll' = InsertManyResult(coll, SubSeq(documents', 1, k))
                 /\ indexes' = IF k > 0 THEN indexes \cup {IdIndex} ELSE indexes
            /\ writes' = writes + 1
    /\ Goto("index_name")
    /\ UNCHANGED <<run, csv, clock, client_open, df, inserted, count, patient,
                   first_hospital, update_result, delete_result, final_count,
                   prev_final>>

\* insert_many raises: InvalidOperation on an empty list (nothing is sent), or
\* a write/network error after the store has taken a prefix of the batch.
InsertManyFail ==
    /\ pc = "insert_many"
    /\ IF Len(documents) = 0
       THEN UNCHANGED <<documents, coll, indexes, writes>>
       ELSE /\ documents' = WithIds(documents)
            /\ \E k \in 0..(Len(documents) - 1) :
                 /\ coll' = InsertManyResult(coll, SubSeq(documents', 1, k))
                 /\ indexes' = IF k > 0 THEN indexes \cup {IdIndex} ELSE indexes
            /\ writes' = writes + 1
    /\ Raise
    /\ UNCHANGED <<run, csv, clock, client_open, df, inserted, count, patient,
                   first_hospital, update_result, delete_result, final_count,
                   prev_final>>

IndexStep(at, name, next) ==
    /\ pc = at
    /\ indexes' = CreateIndex(indexes, name)
    /\ writes' = writes + 1
    /\ Goto(next)
    /\ UNCHANGED <<run, csv, clock, coll, client_open, locals, prev_final>>

\* the four collection.create_index calls
CreateIndexName == IndexStep("index_name", "Name_1", "index_condition")
CreateIndexCondition == IndexStep("index_condition", "Medical Condition_1", "index_hospital")
CreateIndexHospital == IndexStep("index_hospital", "Hospital_1", "index_admission")
CreateIndexAdmission == IndexStep("index_admission", "Date of Admission_1", "verify")

\* count = count_documents({}); sample = find_one(); sample['Name'], sample['Age']
Verify ==
    /\ pc = "verify"
    /\ count' = CountDocuments(coll, FilterAll)
    /\ IF coll # <<>> /\ {"Name", "Age"} \subseteq DOMAIN coll[1]
       THEN Goto("read_condition")
       ELSE Raise
    /\ UNCHANGED <<run, csv, clock, coll, indexes, client_open, df, documents,
                   inserted, patient, first_hospital, update_result,
                   delete_result, final_count, writes, prev_final>>

\* diabetic_count = count_documents({"Medical Condition": "Diabetes"}): logged
ReadCondition ==
    /\ pc = "read_condition"
    /\ Goto("read_name")
    /\ UNCHANGED <<run, csv, clock, coll, indexes, client_open, locals, writes,
                   prev_final>>

\* Fault of the name probe: the result is read without the `if patient:` test.
ReadName_NoGuard ==
    /\ pc = "read_name"
    /\ patient' = IF FirstMatch(coll, FilterBobby) = 0 THEN <<>>
                  ELSE <<coll[FirstMatch(coll, FilterBobby)]>>
    /\ IF patient' # <<>> /\ "Medical Condition" \in DOMAIN patient'[1]
       THEN Goto("read_hospital")
       ELSE Raise
    /\ UNCHANGED <<run, csv, clock, coll, indexes, client_open, df, documents,
                   inserted, count, first_hospital, update_result,
                   delete_result, final_count, writes, prev_final>>

\* patient = find_one(name pattern); if patient: patient['Name'], patient['Medical Condition']
ReadName ==
    /\ pc = "read_name"
    /\ patient' = IF FirstMatch(coll, FilterBobby) = 0 THEN <<>>
                  ELSE <<coll[FirstMatch(coll, FilterBobby)]>>
    /\ IF patient' = <<>> \/ "Medical Condition" \in DOMAIN patient'[1]
       THEN Goto("read_hospital")
       ELSE Raise
    /\ UNCHANGED <<run, csv, clock, coll, indexes, client_open, df, documents,
                   inserted, count, first_hospital, update_result,
                   delete_result, final_count, writes, prev_final>>

\* projection {"Hospital": 1}: _id and, when the document has it, Hospital
ProjectHospital(d) == [f \in DOMAIN d \cap {"_id", "Hospital"} |-> d[f]]

\* first_hospital = find_one({}, {"Hospital": 1}); if first_hospital:
\* hospital_name = first_hospital['Hospital']; hospital_count logged
ReadHospital ==
    /\ pc = "read_hospital"
    /\ first_hospital' = IF coll = <<>> THEN <<>> ELSE <<ProjectHospital(coll[1])>>
    /\ IF first_hospital' = <<>> \/ "Hospital" \in DOMAIN first_hospital'[1]
       THEN Goto("update_admission")
       ELSE Raise
    /\ UNCHANGED <<run, csv, clock, coll, indexes, client_open, df, documents,
                   inserted, count, patient, update_result, delete_result,
                   final_count, writes, prev_final>>

AdmissionUpdate(now) ==
    ("Admission Type" :> "Elective (Updated)") @@ ("updated_at" :> now)

\* update_result_1 = update_one(name pattern, $set Admission Type, updated_at)
UpdateAdmission ==
    /\ pc = "update_admission"
    /\ \E now \in clock..MaxClock :
         /\ coll' = UpdateOne(coll, FilterBobby, AdmissionUpdate(now))
         /\ clock' = now
    /\ update_result' = [update_result EXCEPT ![1] = ModifiedCount(coll, coll')]
    /\ writes' = writes + 1
    /\ Goto("update_hospital")
    /\ UNCHANGED <<run, csv, indexes, client_open, df, documents, inserted,
                   count, patient, first_hospital, delete_result, final_count,
                   prev_final>>

HospitalUpdate(name, now) ==
    ("Hospital" :> (name \o UpdatedSuffix)) @@ ("updated_at" :> now)

HospitalRenamed(c, name, now) ==
    UpdateMany(c, Eq("Hospital", name), HospitalUpdate(name, now))

\* if first_hospital: update_result_2 = update_many({"Hospital": hospital_name}, ...)
UpdateHospital ==
    /\ pc = "update_hospital"
    /\ IF first_hospital = <<>>
       THEN UNCHANGED <<coll, clock, update_result, writes>>
       ELSE /\ \E now \in clock..MaxClock :
                 /\ coll' = HospitalRenamed(coll, first_hospital[1]["Hospital"], now)
                 /\ clock' = now
            /\ update_result' = [update_result EXCEPT ![2] = ModifiedCount(coll, coll')]
            /\ writes' = writes + 1
    /\ Goto("update_status")
    /\ UNCHANGED <<run, csv, indexes, client_open, df, documents, inserted,
                   count, patient, first_hospital, delete_result, final_count,
                   prev_final>>

StatusUpdate(now) == ("status" :> StatusValue) @@ ("updated_at" :> now)

\* update_result_3 = update_many({"Medical Condition": "Diabetes"}, $set status, updated_at)
UpdateStatus ==
    /\ pc = "update_status"
    /\ \E now \in clock..MaxClock :
         /\ coll' = UpdateMany(coll, FilterDiabetes, StatusUpdate(now))
         /\ clock' = now
    /\ update_result' = [update_result EXCEPT ![3] = ModifiedCount(coll, coll')]
    /\ writes' = writes + 1
    /\ Goto("insert_test")
    /\ UNCHANGED <<run, csv, indexes, client_open, df, documents, inserted,
                   count, patient, first_hospital, delete_result, final_count,
                   prev_final>>

SentinelId == <<run, 0>>

TestPatient(created, updated) ==
    ("_id" :> SentinelId) @@ ("Name" :> SentinelName) @@ ("Age" :> 99)
    @@ ("Gender" :> "Male") @@ ("Medical Condition" :> "Test")
    @@ ("Hospital" :> <<"Test Hospital">>)
    @@ ("created_at" :> created) @@ ("updated_at" :> updated)

\* test_patient = {...}; collection.insert_one(test_patient)
InsertTest ==
    /\ pc = "insert_test"
    /\ \E ts \in Readings(2, clock) :
         /\ coll' = Append(coll, TestPatient(ts[1], ts[2]))
         /\ clock' = ts[2]
    /\ writes' = writes + 1
    /\ Goto("delete_test")
    /\ UNCHANGED <<run, csv, indexes, client_open, locals, prev_final>>

DeleteStep(at, k, after, next) ==
    /\ pc = at
    /\ coll' = after
    /\ delete_result' = [delete_result EXCEPT ![k] = Len(coll) - Len(after)]
    /\ writes' = writes + 1
    /\ Goto(next)
    /\ UNCHANGED <<run, csv, clock, indexes, client_open, df, documents,
                   inserted, count, patient, first_hospital, update_result,
                   final_count, prev_final>>

\* delete_result_1 = delete_one({"Name": "Test Patient TO DELETE"})
DeleteTest == DeleteStep("delete_test", 1, DeleteOne(coll, FilterSentinel), "delete_status")

\* delete_result_2 = delete_many({"status": "Nécessite suivi régulier"})
DeleteStatus == DeleteStep("delete_status", 2, DeleteMany(coll, FilterStatus), "delete_incomplete")

\* delete_result_3 = delete_many({"$or": [Name missing, Age missing]})
DeleteIncomplete == DeleteStep("delete_incomplete", 3, DeleteMany(coll, FilterIncomplete), "final")

\* final_count = count_documents({})
FinalCount ==
    /\ pc = "final"
    /\ final_count' = CountDocuments(coll, FilterAll)
    /\ Goto("close")
    /\ UNCHANGED <<run, csv, clock, coll, indexes, client_open, df, documents,
                   inserted, count, patient, first_hospital, update_result,
                   delete_result, writes, prev_final>>

\* client.close(); the success line is logged
Close ==
    /\ pc = "close"
    /\ client_open' = FALSE
    /\ Goto("completed")
    /\ UNCHANGED <<run, csv, clock, coll, indexes, locals, writes, prev_final>>

\* Every statement that calls the store, the bulk insert apart.
StoreSteps ==
    {"delete_all", "index_name", "index_condition", "index_hospital",
     "index_admission", "verify", "read_condition", "read_name",
     "read_hospital", "update_admission", "update_hospital", "update_status",
     "insert_test", "delete_test", "delete_status", "delete_incomplete", "final"}

\* The store is unreachable or refuses the operation: pymongo raises, nothing
\* catches it.
StoreFail ==
    /\ pc \in StoreSteps
    /\ Raise
    /\ UNCHANGED <<run, csv, clock, coll, indexes, client_open, locals, writes,
                   prev_final>>

Terminal == {"completed", "aborted"}

\* The script is run again after a completed run: a new process against the
\* same file and store.  (What an aborted run leaves behind is among the
\* PriorStores.)
Rerun ==
    /\ pc = "completed"
    /\ run < MaxRuns
    /\ run' = run + 1
    /\ prev_final' = final_count
    /\ pc' = "connect"
    /\ failed_at' = ""
    /\ client_open' = FALSE
    /\ df' = <<>>
    /\ documents' = <<>>
    /\ inserted' = NoCount
    /\ count' = NoCount
    /\ patient' = <<>>
    /\ first_hospital' = <<>>
    /\ update_result' = NoResults
    /\ delete_result' = NoResults
    /\ final_count' = NoCount
    /\ writes' = 0
    /\ UNCHANGED <<csv, clock, coll, indexes>>

Next ==
    \/ Connect
    \/ Load
    \/ LoadFail
    \/ Validate
    \/ Transform
    \/ TransformFail
    \/ DeleteOld
    \/ InsertMany
    \/ InsertManyFail
    \/ CreateIndexName
    \/ CreateIndexCondition
    \/ CreateIndexHospital
    \/ CreateIndexAdmission
    \/ Verify
    \/ ReadCondition
    \/ ReadName
    \/ ReadHospital
    \/ UpdateAdmission
    \/ UpdateHospital
    \/ UpdateStatus
    \/ InsertTest
    \/ DeleteTest
    \/ DeleteStatus
    \/ DeleteIncomplete
    \/ FinalCount
    \/ Close
    \/ StoreFail
    \/ Rerun

Spec == Init /\ [][Next]_vars

\* The store of section 4.5 of the design, which only promises to return the
\* number of documents it inserted: it keeps k of the batch, reports k and
\* raises nothing.
InsertManyShort ==
    /\ pc = "insert_many"
    /\ Len(documents) > 0
    /\ documents' = WithIds(documents)
    /\ \E k \in 0..(Len(documents) - 1) :
         /\ coll' = InsertManyResult(coll, SubSeq(documents', 1, k))
         /\ inserted' = k
    /\ indexes' = indexes \cup {IdIndex}
    /\ writes' = writes + 1
    /\ Goto("index_name")
    /\ UNCHANGED <<run, csv, clock, client_open, df, count, patient,
                   first_hospital, update_result, delete_result, final_count,
                   prev_final>>

NextShort ==
    \/ Next
    \/ InsertManyShort

SpecShort == Init /\ [][NextShort]_vars

\* ------------------------------------------------------------------ claims
AllIndexes == {IdIndex} \cup DeclaredIndexes

IndexSteps == {"index_name", "index_condition", "index_hospital", "index_admission"}

DemoSteps ==
    {"read_condition", "read_name", "read_hospital", "update_admission",
     "update_hospital", "update_status", "insert_test", "delete_test",
     "delete_status", "delete_incomplete", "final", "close"}

\* The steps at which every create_index call has returned.
Indexed == {"verify", "completed"} \cup DemoSteps

\* The steps at which at least one create_index call has returned.
PastFirstIndex == (IndexSteps \ {"index_name"}) \cup Indexed

Ids(c) == {c[i]["_id"] : i \in 1..Len(c)}

\* C1: from the return of the bulk insert until the demonstration begins, the
\* collection holds exactly one document per source row, whatever it held
\* before the run, and the count the run reads there is that number.
C1_CountAfterBulkInsert ==
    /\ pc \in IndexSteps \cup {"verify"} => Len(coll) = Len(csv)
    /\ count # NoCount => count = Len(csv)

\* C1 witness: a second run, whose collection held the documents the first
\* run left, has just inserted its two rows.
C1_Witness ==
    /\ run = 2 /\ prev_final > 0
    /\ pc = "index_name" /\ Len(csv) = 2 /\ Len(coll) = 2

\* C2: whenever a run has ended, completed or aborted, the client is closed.
C2_ClientReleased == pc \in Terminal => ~client_open

\* C3: once the bulk insert has reported a number of inserted documents that
\* differs from the number handed to it, no index is created and the run does
\* not complete.
C3_ShortInsertFails ==
    (inserted # NoCount /\ inserted # Len(documents)) => pc \notin PastFirstIndex

\* C4: a run that aborts at the load or at the date parse has issued no write,
\* and no step taken while no write has been issued changes the collection or
\* its indexes: the store is as it was before the run.
C4_AbortBeforeWrite ==
    [][/\ (pc \in {"load", "transform"} /\ pc' = "aborted") => writes' = 0
       /\ writes' = 0 => (coll' = coll /\ indexes' = indexes)]_vars

\* C4 witness: a run over a file with an unparseable date has aborted and the
\* documents the collection held are all there.
C4_Witness ==
    /\ pc = "aborted" /\ failed_at = "transform"
    /\ writes = 0 /\ coll = <<OldDoc, OldPartial>>

\* C5: at the end of a completed run the final count is the number of source
\* rows less the documents the cleanup pass removed.
C5_FinalCount ==
    pc = "completed" => final_count = Len(csv) - delete_result[3]

\* C6: when a run completes, every document the bulk insert wrote is still in
\* the collection with the same fields and the same values in its source columns.
C6_DemoFrame ==
    pc = "completed" =>
        \A i \in 1..Len(documents) :
            \E j \in 1..Len(coll) :
                /\ coll[j]["_id"] = documents[i]["_id"]
                /\ DOMAIN coll[j] = DOMAIN documents[i]
                /\ \A f \in Columns : coll[j][f] = documents[i][f]

\* C7: every document the bulk insert has just written carries created_at and
\* updated_at, and the two are equal.
C7_SameInstant ==
    pc = "index_name" =>
        \A j \in 1..Len(coll) :
            /\ {"created_at", "updated_at"} \subseteq DOMAIN coll[j]
            /\ coll[j]["created_at"] = coll[j]["updated_at"]

\* C8: after the delete-one by the sentinel's name, exactly one document has
\* been removed, no document bears that name, and every document of the bulk
\* insert is still there.
C8_SentinelDeleted ==
    pc = "delete_status" =>
        /\ delete_result[1] = 1
        /\ CountDocuments(coll, FilterSentinel) = 0
        /\ Ids(documents) \subseteq Ids(coll)

\* C9: a run that completes right after a completed run over the same file
\* ends with the same final count.
C9_SameFinalCount ==
    (pc = "completed" /\ prev_final # NoCount) => final_count = prev_final

\* C9 witness: the second of two completed runs over a two-row file with a
\* diabetic patient has ended.
C9_Witness ==
    /\ pc = "completed" /\ run = 2 /\ prev_final # NoCount
    /\ Len(csv) = 2 /\ final_count = prev_final /\ final_count < Len(csv)

\* C10: once the four create_index calls have returned, in the first run or in
\* a later one, the collection has exactly the five indexes, and it keeps them
\* until the run ends.
C10_FiveIndexes ==
    (pc \in Indexed \/ (pc = "aborted" /\ failed_at \in Indexed)) =>
        (indexes = AllIndexes /\ Cardinality(indexes) = 5)

\* C10 witness: a second run, after a completed first one, has created its
\* indexes again.
C10_Witness ==
    /\ run = 2 /\ prev_final # NoCount
    /\ pc = "verify" /\ indexes = AllIndexes

\* The loaded dataset has no name matching the pattern / no diabetic patient.
NoBobbyData == Indices(documents, FilterBobby) = {}

NoDiabetesData == Indices(documents, FilterDiabetes) = {}

\* A step of the run that does not raise.
Advance == Next /\ pc' # "aborted"

\* C11: in the demonstration over a dataset with no name matching the pattern
\* or no diabetic patient, the statement at hand can always be executed
\* without raising (only a failing store call aborts the run); with no
\* matching name the name probe finds nothing and the first update modifies
\* zero documents; with no diabetic patient the third update modifies zero
\* documents and the delete by status deletes zero.
C11_NoMatchNeverAborts ==
    /\ (pc \in DemoSteps /\ (NoBobbyData \/ NoDiabetesData)) => ENABLED Advance
    /\ (pc \in DemoSteps \cup Terminal /\ NoBobbyData) =>
           (patient = <<>> /\ update_result[1] \in {NoCount, 0})
    /\ (pc \in DemoSteps \cup Terminal /\ NoDiabetesData) =>
           (update_result[3] \in {NoCount, 0} /\ delete_result[2] \in {NoCount, 0})

\* C11 witness: a run over two rows, none named Bobby-something and none
\* diabetic, has completed with the probe empty and the counts at zero.
C11_Witness ==
    /\ pc = "completed" /\ Len(documents) = 2
    /\ NoBobbyData /\ NoDiabetesData
    /\ patient = <<>>
    /\ update_result[1] = 0 /\ update_result[3] = 0 /\ delete_result[2] = 0

InsertAborted == pc = "aborted" /\ failed_at = "insert_many"

====
